---------------------------- MODULE Spec2Model ----------------------------
(***************************************************************************)
(* Report normalisation pipelines of surefire-to-ctrf: TestNG and JUnit    *)
(* XML reports converted to a CTRF report.                                 *)
(*                                                                         *)
(* The tree handed to the extractors is the one xml2js builds: an element  *)
(* is an object holding its attribute bag `$` and one array per child tag; *)
(* an element with no attribute, no child and no text is the empty string. *)
(* Text the code inspects character by character (status, counts, times,   *)
(* dates) is a sequence of one-character strings; text the code only       *)
(* copies or concatenates (names, messages) is a string.                   *)
(***************************************************************************)
EXTENDS Integers, Sequences, FiniteSets, TLC

(***************************************************************************)
(* JavaScript values.                                                      *)
(***************************************************************************)
\* An absent property (undefined) and a present one.
None == <<>>
Some(v) == <<v>>

\* JavaScript truthiness of an optional string: undefined and "" are falsy.
TruthyStr(o) == o # None /\ o[1] # ""

\* JavaScript truthiness of an optional character sequence.
TruthyChars(o) == o # None /\ o[1] # <<>>

\* A JavaScript number is NaN or an integer n.
NaN == <<>>
Num(n) == <<n>>

\* x || 0 on a number: NaN and 0 are falsy.
OrZero(x) == IF x = NaN \/ x = Num(0) THEN Num(0) ELSE x

Digits == <<"0", "1", "2", "3", "4", "5", "6", "7", "8", "9">>
IsDigit(c) == \E i \in 1..Len(Digits) : Digits[i] = c
DigitVal(c) == (CHOOSE i \in 1..Len(Digits) : Digits[i] = c) - 1
IsSpace(c) == c = " "

RECURSIVE SkipSpaces(_, _)
SkipSpaces(s, i) ==
  IF i <= Len(s) /\ IsSpace(s[i]) THEN SkipSpaces(s, i + 1) ELSE i

RECURSIVE DigitRun(_, _)
\* The index just past the run of digits of s that starts at i.
DigitRun(s, i) ==
  IF i <= Len(s) /\ IsDigit(s[i]) THEN DigitRun(s, i + 1) ELSE i

RECURSIVE DigitsValue(_, _, _, _)
\* The value of the digits s[i..j-1], continuing acc.
DigitsValue(s, i, j, acc) ==
  IF i >= j THEN acc ELSE DigitsValue(s, i + 1, j, acc * 10 + DigitVal(s[i]))

\* parseInt(o, 10): leading white space, a sign, then the longest run of
\* digits; NaN when there is no digit there, or when o is undefined.
parseInt(o) ==
  IF o = None THEN NaN
  ELSE LET s == o[1]
           a == SkipSpaces(s, 1)
           neg == a <= Len(s) /\ s[a] = "-"
           b == IF a <= Len(s) /\ s[a] \in {"-", "+"} THEN a + 1 ELSE a
           e == DigitRun(s, b)
       IN IF e = b THEN NaN
          ELSE Num((IF neg THEN -1 ELSE 1) * DigitsValue(s, b, e, 0))

Uppers == <<"A", "B", "C", "D", "E", "F", "G", "H", "I", "J", "K", "L", "M",
            "N", "O", "P", "Q", "R", "S", "T", "U", "V", "W", "X", "Y", "Z">>
Lowers == <<"a", "b", "c", "d", "e", "f", "g", "h", "i", "j", "k", "l", "m",
            "n", "o", "p", "q", "r", "s", "t", "u", "v", "w", "x", "y", "z">>

\* String.prototype.toLowerCase, character by character.
toLowerCase(s) ==
  [i \in 1..Len(s) |->
     IF \E k \in 1..Len(Uppers) : Uppers[k] = s[i]
     THEN Lowers[CHOOSE k \in 1..Len(Uppers) : Uppers[k] = s[i]]
     ELSE s[i]]


RECURSIVE ConcatAll(_)
\* Array.prototype.flatMap / nested forEach order: the concatenation of a
\* sequence of sequences.
ConcatAll(ss) == IF ss = <<>> THEN <<>> ELSE Head(ss) \o ConcatAll(Tail(ss))

RECURSIVE IndexOf(_, _, _)
\* The index of the first c of s at or after i, Len(s) + 1 if none.
IndexOf(s, c, i) ==
  IF i > Len(s) \/ s[i] = c THEN i ELSE IndexOf(s, c, i + 1)

RECURSIVE split(_, _)
\* s.split(c): the pieces of s between every two occurrences of c.
split(s, c) ==
  LET i == IndexOf(s, c, 1) IN
  IF i > Len(s) THEN <<s>>
  ELSE <<SubSeq(s, 1, i - 1)>> \o split(SubSeq(s, i + 1, Len(s)), c)

\* An object is a function from its keys; {} has none.
EmptyObject == [k \in {} |-> None]

RECURSIVE fromEntries(_)
\* Object.fromEntries(entries): entry[0] is the key and entry[1] the value
\* (undefined when the entry has one element), what follows them in the
\* entry is not read, and a later entry overwrites an earlier one of the
\* same key.
fromEntries(entries) ==
  IF entries = <<>> THEN EmptyObject
  ELSE LET e == entries[Len(entries)] IN
       (e[1] :> (IF Len(e) >= 2 THEN Some(e[2]) ELSE None))
         @@ fromEntries(SubSeq(entries, 1, Len(entries) - 1))

(***************************************************************************)
(* Dates.  new Date(s).getTime() is the engine's; it is given here for the *)
(* date strings of the model's reports.  Timestamps are counted from an    *)
(* origin and in a unit that keep them small.                              *)
(***************************************************************************)
\* "2024-01-01T10:00:00Z"
IsoStart == <<"2", "0", "2", "4", "-", "0", "1", "-", "0", "1", "T",
              "1", "0", ":", "0", "0", ":", "0", "0", "Z">>
\* "2024-01-01T10:00:05Z"
IsoMethodStart == <<"2", "0", "2", "4", "-", "0", "1", "-", "0", "1", "T",
                    "1", "0", ":", "0", "0", ":", "0", "5", "Z">>
\* "2024-01-01T10:05:00Z"
IsoStop == <<"2", "0", "2", "4", "-", "0", "1", "-", "0", "1", "T",
             "1", "0", ":", "0", "5", ":", "0", "0", "Z">>
\* "not-a-date"
NotADate == <<"n", "o", "t", "-", "a", "-", "d", "a", "t", "e">>
\* "2024-01-01T10:00:00Z IST": a date followed by a zone name the engine
\* does not know, which makes the whole string an Invalid Date.
IsoStartZoned == IsoStart \o <<" ", "I", "S", "T">>
\* "not a date"
NotADateSpaced == <<"n", "o", "t", " ", "a", " ", "d", "a", "t", "e">>

\* new Date(s).getTime() for a string s; NaN is an Invalid Date.
DateGetTime(s) ==
  CASE s = IsoStart -> Num(36000)
    [] s = IsoMethodStart -> Num(36005)
    [] s = IsoStop -> Num(36300)
    [] OTHER -> NaN

RECURSIVE FirstSpace(_, _)
\* The index of the first space of s at or after i, Len(s) + 1 if none.
FirstSpace(s, i) ==
  IF i > Len(s) \/ s[i] = " " THEN i ELSE FirstSpace(s, i + 1)

\* dateString.split(" ")[0]
BeforeFirstSpace(s) == SubSeq(s, 1, FirstSpace(s, 1) - 1)

\* parseDate without its second attempt on the text before the first space.
parseDateFullOnly(o) ==
  IF o = None THEN Num(0)
  ELSE LET date == DateGetTime(o[1])
       IN IF date # NaN THEN date ELSE Num(0)

\* parseDate(dateString).  new Date(undefined) is an Invalid Date, and
\* undefined.split throws a TypeError the catch turns into 0.
parseDate(o) ==
  IF o = None THEN Num(0)
  ELSE LET date == DateGetTime(o[1])
           dateWithoutTZ == DateGetTime(BeforeFirstSpace(o[1]))
       IN IF date # NaN THEN date
          ELSE IF dateWithoutTZ # NaN THEN dateWithoutTZ
          ELSE Num(0)

(***************************************************************************)
(* The xml2js tree.                                                        *)
(***************************************************************************)
\* xml2js gives the empty string for an element with no attribute and no
\* child: such a node is falsy, and every property read on it is undefined.
IsEmptyRoot(n) == n.attrs = None /\ n.suite = None
IsEmptySuite(n) == n.attrs = None /\ n.test = None
IsEmptyException(n) ==
  n.attrs = None /\ n.message = None /\ n.full_stacktrace = None

\* o?.[0] on an optional array: undefined when o is undefined or empty.
First(o) == IF o = None \/ o[1] = <<>> THEN None ELSE Some(o[1][1])

\* o?.[0] as a string is truthy.
FirstTruthy(o) == First(o) # None /\ First(o)[1] # ""

(***************************************************************************)
(* TestNG, the extractor.                                                  *)
(***************************************************************************)
MissingRootMessage == "Invalid TestNG report format: missing testng-results"
MissingSuiteMessage == "Invalid TestNG report format: missing suite"
\* An incidental TypeError of the engine, as the promise rejects with it.
TypeErrorMessage == "TypeError: Cannot read properties of undefined"
ExtractFailedMessage == "Failed to parse TestNG report: " \o TypeErrorMessage

StatusPass == <<"p", "a", "s", "s">>
StatusFail == <<"f", "a", "i", "l">>
StatusSkip == <<"s", "k", "i", "p">>
StatusOther == <<"o", "t", "h", "e", "r">>

\* The positions <<test, class, method>> the three nested forEach loops
\* visit, in their order: a test without a class array and a class without a
\* test-method array are passed over.
WalkOrder(suite) ==
  IF suite.test = None THEN <<>>
  ELSE LET tests == suite.test[1] IN
    ConcatAll([ti \in 1..Len(tests) |->
      IF tests[ti].class = None THEN <<>>
      ELSE LET classes == tests[ti].class[1] IN
        ConcatAll([ci \in 1..Len(classes) |->
          IF classes[ci].test_method = None THEN <<>>
          ELSE [mi \in 1..Len(classes[ci].test_method[1]) |-> <<ti, ci, mi>>]])])

MethodAt(suite, pos) ==
  suite.test[1][pos[1]].class[1][pos[2]].test_method[1][pos[3]]

TestAt(suite, pos) == suite.test[1][pos[1]]

\* The testCase object built for a method: name, status, duration, start
\* and end, and the message and stack trace of its exception if it has one.
TestCaseOf(test, method) ==
  LET a == method.attrs[1]
      exc == First(method.exception)
      hasExc == exc # None /\ ~IsEmptyException(exc[1])
  IN [name |-> (IF TruthyStr(test.attrs[1].name)
                THEN test.attrs[1].name[1] ELSE "Unknown Test")
               \o ": " \o
               (IF TruthyStr(a.name) THEN a.name[1] ELSE "Unknown Method"),
      status |-> toLowerCase(IF TruthyChars(a.status)
                             THEN a.status[1] ELSE StatusOther),
      duration |-> OrZero(parseInt(a.duration_ms)),
      startTime |-> parseDate(a.started_at),
      endTime |-> parseDate(a.finished_at),
      message |-> IF hasExc /\ FirstTruthy(exc[1].message)
                  THEN First(exc[1].message) ELSE None,
      trace |-> IF hasExc /\ FirstTruthy(exc[1].full_stacktrace)
                THEN First(exc[1].full_stacktrace) ELSE None]

\* The per-method body without its is_config test: a walk that takes
\* configuration methods for tests.
ProcessMethodKeepConfig(test, method) ==
  IF method.attrs = None THEN [kind |-> "return"]
  ELSE IF test.attrs = None THEN [kind |-> "throw"]
  ELSE [kind |-> "push", testCase |-> TestCaseOf(test, method)]

\* The body of the per-method try block: "return" leaves the method out,
\* "throw" is a TypeError the catch logs, "push" appends testCase.
ProcessMethod(test, method) ==
  IF method.attrs = None THEN [kind |-> "return"]
  ELSE IF method.attrs[1].is_config = Some("true") THEN [kind |-> "return"]
  ELSE IF test.attrs = None THEN [kind |-> "throw"]
  ELSE [kind |-> "push", testCase |-> TestCaseOf(test, method)]

RECURSIVE WalkFromAbortOnThrow(_, _, _)
\* The walk without its per-method catch: the first method that throws
\* ends it.
WalkFromAbortOnThrow(suite, order, i) ==
  IF i > Len(order) THEN <<>>
  ELSE LET r == ProcessMethod(TestAt(suite, order[i]), MethodAt(suite, order[i]))
       IN IF r.kind = "throw" THEN <<>>
          ELSE (IF r.kind = "push" THEN <<r.testCase>> ELSE <<>>)
               \o WalkFromAbortOnThrow(suite, order, i + 1)

RECURSIVE WalkFrom(_, _, _)
\* The test cases pushed for the positions order[i..].
WalkFrom(suite, order, i) ==
  IF i > Len(order) THEN <<>>
  ELSE LET r == ProcessMethod(TestAt(suite, order[i]), MethodAt(suite, order[i]))
       IN (IF r.kind = "push" THEN <<r.testCase>> ELSE <<>>)
          \o WalkFrom(suite, order, i + 1)

\* The positions whose processing threw and was caught and logged.
CaughtAt(suite) ==
  LET order == WalkOrder(suite) IN
  SelectSeq(order,
            LAMBDA pos :
              ProcessMethod(TestAt(suite, pos), MethodAt(suite, pos)).kind = "throw")

\* All test-method elements under suite -> test -> class, in document
\* order: the two flatMap calls of the beforeSuite search.
AllMethods(suite) ==
  IF suite.test = None THEN <<>>
  ELSE LET tests == suite.test[1] IN
    ConcatAll([ti \in 1..Len(tests) |->
      IF tests[ti].class = None THEN <<>>
      ELSE LET classes == tests[ti].class[1] IN
        ConcatAll([ci \in 1..Len(classes) |->
          IF classes[ci].test_method = None THEN <<>>
          ELSE classes[ci].test_method[1]])])

IsBeforeSuite(method) ==
  method.attrs # None /\ method.attrs[1].name = Some("beforeSuite")

\* startedAt without the beforeSuite search: the suite's own.
StartedAtSuiteOnly(suite) ==
  IF suite.attrs = None THEN None ELSE suite.attrs[1].started_at

\* startedAt after the beforeSuite search.
StartedAt(suite) ==
  LET own == IF suite.attrs = None THEN None ELSE suite.attrs[1].started_at
      found == SelectSeq(AllMethods(suite), IsBeforeSuite)
  IN IF found # <<>> THEN found[1].attrs[1].started_at ELSE own

Rejected(msg) ==
  [state |-> "rejected", message |-> msg, testCases |-> <<>>,
   results |-> None, caught |-> <<>>]

\* parseTestNGReport, the callback of parseString once the XML is parsed.
parseTestNGReport(result) ==
  LET root == result.testng_results IN
  IF root = None \/ IsEmptyRoot(root[1]) THEN Rejected(MissingRootMessage)
  ELSE LET suiteOpt == First(root[1].suite) IN
    IF suiteOpt = None \/ IsEmptySuite(suiteOpt[1]) THEN Rejected(MissingSuiteMessage)
    ELSE LET suite == suiteOpt[1]
             finishedAt == IF suite.attrs = None THEN None
                           ELSE suite.attrs[1].finished_at
         IN IF root[1].attrs = None THEN Rejected(ExtractFailedMessage)
            ELSE LET c == root[1].attrs[1] IN
              [state |-> "resolved",
               message |-> "",
               testCases |-> WalkFrom(suite, WalkOrder(suite), 1),
               results |-> Some(
                 [total |-> OrZero(parseInt(c.total)),
                  passed |-> OrZero(parseInt(c.passed)),
                  failed |-> OrZero(parseInt(c.failed)),
                  skipped |-> OrZero(parseInt(c.skipped)),
                  ignored |-> OrZero(parseInt(c.ignored)),
                  startTime |-> parseDate(StartedAt(suite)),
                  endTime |-> parseDate(finishedAt),
                  suiteName |-> IF suite.attrs # None /\ TruthyStr(suite.attrs[1].name)
                                THEN suite.attrs[1].name ELSE Some("Unknown Suite")]),
               caught |-> CaughtAt(suite)]

(***************************************************************************)
(* TestNG, the mapper.                                                     *)
(***************************************************************************)
\* The TestNG mapping with "pending" for an unknown raw status.
convertToCTRFTestPending(testCase) ==
  LET status == CASE testCase.status = StatusPass -> "passed"
                  [] testCase.status = StatusFail -> "failed"
                  [] testCase.status = StatusSkip -> "skipped"
                  [] OTHER -> "pending"
  IN [name |-> testCase.name,
      status |-> status,
      duration |-> testCase.duration,
      message |-> IF status = "failed" /\ TruthyStr(testCase.message)
                  THEN testCase.message ELSE None,
      trace |-> IF status = "failed" /\ TruthyStr(testCase.trace)
                THEN testCase.trace ELSE None]

\* The TestNG mapping attaching message and trace whatever the status.
convertToCTRFTestAnyStatus(testCase) ==
  LET status == CASE testCase.status = StatusPass -> "passed"
                  [] testCase.status = StatusFail -> "failed"
                  [] testCase.status = StatusSkip -> "skipped"
                  [] OTHER -> "other"
  IN [name |-> testCase.name,
      status |-> status,
      duration |-> testCase.duration,
      message |-> IF TruthyStr(testCase.message) THEN testCase.message ELSE None,
      trace |-> IF TruthyStr(testCase.trace) THEN testCase.trace ELSE None]

\* convertToCTRFTest(testCase) of the TestNG converter.
convertToCTRFTest(testCase) ==
  LET status == CASE testCase.status = StatusPass -> "passed"
                  [] testCase.status = StatusFail -> "failed"
                  [] testCase.status = StatusSkip -> "skipped"
                  [] OTHER -> "other"
  IN [name |-> testCase.name,
      status |-> status,
      duration |-> testCase.duration,
      message |-> IF status = "failed" /\ TruthyStr(testCase.message)
                  THEN testCase.message ELSE None,
      trace |-> IF status = "failed" /\ TruthyStr(testCase.trace)
                THEN testCase.trace ELSE None]

\* The TestNG summary with tests recounted from the extracted list.
createCTRFReportRecount(testCases, results, toolName, envProps) ==
  [tool |-> [name |-> IF TruthyStr(toolName) THEN toolName[1] ELSE "TestNG"],
   summary |-> [tests |-> Num(Len(testCases)),
                passed |-> results.passed,
                failed |-> results.failed,
                pending |-> Num(0),
                skipped |-> results.skipped,
                other |-> results.ignored,
                start |-> results.startTime,
                stop |-> results.endTime],
   tests |-> [i \in 1..Len(testCases) |-> convertToCTRFTest(testCases[i])],
   environment |-> Some(envProps)]

\* createCTRFReport(testCases, results, toolName, envProps) of the TestNG
\* converter; environment is a copy of envProps, present even when empty.
createCTRFReport(testCases, results, toolName, envProps) ==
  [tool |-> [name |-> IF TruthyStr(toolName) THEN toolName[1] ELSE "TestNG"],
   summary |-> [tests |-> results.total,
                passed |-> results.passed,
                failed |-> results.failed,
                pending |-> Num(0),
                skipped |-> results.skipped,
                other |-> results.ignored,
                start |-> results.startTime,
                stop |-> results.endTime],
   tests |-> [i \in 1..Len(testCases) |-> convertToCTRFTest(testCases[i])],
   environment |-> Some(envProps)]

(***************************************************************************)
(* JUnit, the extractor.                                                   *)
(***************************************************************************)

\* failure[0] or error[0] as xml2js gives it: an element without attributes
\* is its text (a string, "" when it has none); an element with attributes
\* is an object whose `_` is its text, absent when it has none.
\* Either way the value kept is the text when there is some, and undefined
\* otherwise: "" is falsy, and an object without `_` gives undefined.
BodyText(body) == IF body.text = "" THEN None ELSE Some(body.text)

\* x ? x[0] : undefined, then  v ? (typeof v === 'string' ? v : v._) : undefined
ChildText(o) ==
  IF o = None \/ o[1] = <<>> THEN None ELSE BodyText(o[1][1])

\* The record pushed for one testcase element (whose `$` exists).
JUnitCase(testCase, suiteName) ==
  [suite |-> suiteName,
   classname |-> testCase.attrs[1].classname,
   name |-> testCase.attrs[1].name,
   time |-> testCase.attrs[1].time,
   failure |-> ChildText(testCase.failure),
   error |-> ChildText(testCase.error),
   skipped |-> testCase.skipped # None]

RECURSIVE SuiteThrows(_)
\* parseTestSuite(suite, _) throws: destructuring testCase.$ of a testcase
\* without attribute bag, here or in a nested suite.
SuiteThrows(suite) ==
  \/ suite.testcase # None
     /\ \E i \in 1..Len(suite.testcase[1]) : suite.testcase[1][i].attrs = None
  \/ suite.testsuite # None
     /\ \E i \in 1..Len(suite.testsuite[1]) : SuiteThrows(suite.testsuite[1][i])

\* parseTestSuite without its descent into nested suites.
parseTestSuiteOwnOnly(suite, suiteName) ==
  IF suite.testcase = None THEN <<>>
  ELSE [i \in 1..Len(suite.testcase[1]) |->
          JUnitCase(suite.testcase[1][i], suiteName)]

RECURSIVE parseTestSuiteNestedName(_, _)
\* parseTestSuite handing each nested suite its own name where it has one.
parseTestSuiteNestedName(suite, suiteName) ==
  (IF suite.testcase = None THEN <<>>
   ELSE [i \in 1..Len(suite.testcase[1]) |->
           JUnitCase(suite.testcase[1][i], suiteName)])
  \o
  (IF suite.testsuite = None THEN <<>>
   ELSE ConcatAll([i \in 1..Len(suite.testsuite[1]) |->
                     parseTestSuiteNestedName(
                       suite.testsuite[1][i],
                       IF suite.testsuite[1][i].attrs = None THEN suiteName
                       ELSE suite.testsuite[1][i].attrs[1].name)]))

RECURSIVE parseTestSuite(_, _)
\* parseTestSuite(suite, suiteName): the records it pushes, its own
\* testcases first, then those of its nested suites, in order.
parseTestSuite(suite, suiteName) ==
  (IF suite.testcase = None THEN <<>>
   ELSE [i \in 1..Len(suite.testcase[1]) |->
           JUnitCase(suite.testcase[1][i], suiteName)])
  \o
  (IF suite.testsuite = None THEN <<>>
   ELSE ConcatAll([i \in 1..Len(suite.testsuite[1]) |->
                     parseTestSuite(suite.testsuite[1][i], suiteName)]))

\* parseJUnitReport once the XML is parsed.
parseJUnitReport(result) ==
  LET root == result.testsuites IN
  IF root = None \/ root[1].testsuite = None THEN Rejected(TypeErrorMessage)
  ELSE LET suites == root[1].testsuite[1] IN
    IF \E i \in 1..Len(suites) : suites[i].attrs = None \/ SuiteThrows(suites[i])
    THEN Rejected(TypeErrorMessage)
    ELSE [state |-> "resolved",
          message |-> "",
          testCases |-> ConcatAll([i \in 1..Len(suites) |->
                          parseTestSuite(suites[i], suites[i].attrs[1].name)]),
          results |-> None,
          caught |-> <<>>]

(***************************************************************************)
(* JUnit, the mapper.                                                      *)
(***************************************************************************)
RECURSIVE Pow10(_)
Pow10(k) == IF k = 0 THEN 1 ELSE 10 * Pow10(k - 1)

\* Math.round(parseFloat(o) * 1000): parseFloat reads leading white space,
\* a sign, digits, and a "." with digits (an exponent is not modelled), and
\* is NaN when no digit is read; Math.round rounds ties up.  The arithmetic
\* is exact where the code's is floating point.
RoundMillis(o) ==
  IF o = None THEN NaN
  ELSE LET s == o[1]
           a == SkipSpaces(s, 1)
           neg == a <= Len(s) /\ s[a] = "-"
           b == IF a <= Len(s) /\ s[a] \in {"-", "+"} THEN a + 1 ELSE a
           e == DigitRun(s, b)
           f == IF e <= Len(s) /\ s[e] = "." THEN DigitRun(s, e + 1) ELSE e
           k == IF f > e THEN f - e - 1 ELSE 0
           whole == DigitsValue(s, b, e, 0)
           frac == IF f > e THEN DigitsValue(s, e + 1, f, 0) ELSE 0
           n == (IF neg THEN -1 ELSE 1) * (whole * Pow10(k) + frac)
       IN IF e = b /\ k = 0 THEN NaN
          ELSE Num((2000 * n + Pow10(k)) \div (2 * Pow10(k)))

\* `${x}` of an optional string.
Interpolate(o) == IF o = None THEN "undefined" ELSE o[1]

\* a || b on optional strings.
OrElse(a, b) == IF TruthyStr(a) THEN a ELSE b

\* convertToCTRFTest(testCase) of the JUnit converter.
convertToCTRFTestJUnit(testCase) ==
  LET status == IF TruthyStr(testCase.failure) THEN "failed"
                ELSE IF TruthyStr(testCase.error) THEN "failed"
                ELSE IF testCase.skipped THEN "skipped"
                ELSE "passed"
      text == OrElse(testCase.failure, testCase.error)
  IN [name |-> Interpolate(testCase.suite) \o ": " \o Interpolate(testCase.name),
      status |-> status,
      duration |-> RoundMillis(testCase.time),
      message |-> IF TruthyStr(text) THEN text ELSE None,
      trace |-> IF TruthyStr(text) THEN text ELSE None]

\* ctrfTests.filter(test => test.status === st).length
CountStatus(ctrfTests, st) ==
  Len(SelectSeq(ctrfTests, LAMBDA t : t.status = st))

\* The JUnit summary with tests counted as passed plus failed.
createCTRFReportJUnitNoSkipped(testCases, toolName, envProps) ==
  LET ctrfTests == [i \in 1..Len(testCases) |-> convertToCTRFTestJUnit(testCases[i])]
  IN [tool |-> [name |-> IF TruthyStr(toolName) THEN toolName[1] ELSE "junit-to-ctrf"],
      summary |-> [tests |-> Num(CountStatus(ctrfTests, "passed")
                                   + CountStatus(ctrfTests, "failed")),
                   passed |-> Num(CountStatus(ctrfTests, "passed")),
                   failed |-> Num(CountStatus(ctrfTests, "failed")),
                   pending |-> Num(CountStatus(ctrfTests, "pending")),
                   skipped |-> Num(CountStatus(ctrfTests, "skipped")),
                   other |-> Num(CountStatus(ctrfTests, "other")),
                   start |-> Num(0),
                   stop |-> Num(0)],
      tests |-> ctrfTests,
      environment |-> IF DOMAIN envProps # {} THEN Some(envProps) ELSE None]

\* createCTRFReport(testCases, toolName, envProps) of the JUnit converter;
\* environment is set only when envProps has a key.
createCTRFReportJUnit(testCases, toolName, envProps) ==
  LET ctrfTests == [i \in 1..Len(testCases) |-> convertToCTRFTestJUnit(testCases[i])]
  IN [tool |-> [name |-> IF TruthyStr(toolName) THEN toolName[1] ELSE "junit-to-ctrf"],
      summary |-> [tests |-> Num(Len(ctrfTests)),
                   passed |-> Num(CountStatus(ctrfTests, "passed")),
                   failed |-> Num(CountStatus(ctrfTests, "failed")),
                   pending |-> Num(CountStatus(ctrfTests, "pending")),
                   skipped |-> Num(CountStatus(ctrfTests, "skipped")),
                   other |-> Num(CountStatus(ctrfTests, "other")),
                   start |-> Num(0),
                   stop |-> Num(0)],
      tests |-> ctrfTests,
      environment |-> IF DOMAIN envProps # {} THEN Some(envProps) ELSE None]

(***************************************************************************)
(* TestNG, the earlier copy of the extractor, which the repository keeps   *)
(* beside the JUnit converter.  Its mapper is the same as above.           *)
(***************************************************************************)
\* A non-config method whose processing throws in the earlier copy.
LegacyMethodThrows(test, method) ==
  LET a == method.attrs[1]
      exc == First(method.exception)
  IN \/ test.attrs = None
     \/ a.status = None
     \/ exc # None /\ (First(exc[1].message) = None
                         \/ First(exc[1].full_stacktrace) = None)

\* The earlier copy throws a TypeError somewhere in its callback.
LegacyThrows(result) ==
  LET root == result.testng_results IN
  \/ root = None
  \/ First(root[1].suite) = None
  \/ LET suite == First(root[1].suite)[1] IN
       \/ suite.attrs = None
       \/ root[1].attrs = None
       \/ suite.test = None
       \/ \E ti \in 1..Len(suite.test[1]) :
            LET test == suite.test[1][ti] IN
            \/ test.class = None
            \/ \E ci \in 1..Len(test.class[1]) :
                 LET cls == test.class[1][ci] IN
                 \/ cls.test_method = None
                 \/ \E mi \in 1..Len(cls.test_method[1]) :
                      LET method == cls.test_method[1][mi] IN
                      \/ method.attrs = None
                      \/ /\ method.attrs[1].is_config # Some("true")
                         /\ LegacyMethodThrows(test, method)

\* The test case the earlier copy pushes for a non-config method.
LegacyTestCase(test, method) ==
  LET a == method.attrs[1]
      exc == First(method.exception)
  IN [name |-> Interpolate(test.attrs[1].name) \o ": " \o Interpolate(a.name),
      status |-> toLowerCase(a.status[1]),
      duration |-> parseInt(a.duration_ms),
      startTime |-> parseDate(a.started_at),
      endTime |-> parseDate(a.finished_at),
      message |-> IF exc # None THEN First(exc[1].message) ELSE None,
      trace |-> IF exc # None THEN First(exc[1].full_stacktrace) ELSE None]

\* parseTestNGReport of the earlier copy, once the XML is parsed.
parseTestNGReportLegacy(result) ==
  IF LegacyThrows(result) THEN Rejected(TypeErrorMessage)
  ELSE LET root == result.testng_results[1]
           suite == First(root.suite)[1]
           c == root.attrs[1]
           order == WalkOrder(suite)
           kept == SelectSeq(order,
                     LAMBDA pos :
                       MethodAt(suite, pos).attrs[1].is_config # Some("true"))
       IN [state |-> "resolved",
           message |-> "",
           testCases |-> [i \in 1..Len(kept) |->
                            LegacyTestCase(TestAt(suite, kept[i]),
                                           MethodAt(suite, kept[i]))],
           results |-> Some(
             [total |-> parseInt(c.total),
              passed |-> parseInt(c.passed),
              failed |-> parseInt(c.failed),
              skipped |-> parseInt(c.skipped),
              ignored |-> parseInt(c.ignored),
              startTime |-> parseDate(StartedAt(suite)),
              endTime |-> parseDate(suite.attrs[1].finished_at),
              suiteName |-> suite.attrs[1].name]),
           caught |-> <<>>]

(***************************************************************************)
(* The reports the conversions are run on.                                 *)
(***************************************************************************)
\* The most elements (test and test-method; testsuite and testcase) a
\* generated report holds under its suite or testsuites node.
MaxNodes == 4

MethodAttrs(name, isConfig, status, duration, startedAt) ==
  Some([name |-> name, is_config |-> isConfig, status |-> status,
        duration_ms |-> duration, started_at |-> startedAt,
        finished_at |-> IF startedAt = None THEN None ELSE Some(IsoStop)])

Exception(message, trace) ==
  Some(<<[attrs |-> Some([class |-> "java.lang.AssertionError"]),
          message |-> message, full_stacktrace |-> trace]>>)

\* <exception/>: no attribute, no child.
EmptyException ==
  Some(<<[attrs |-> None, message |-> None, full_stacktrace |-> None]>>)

PassingMethod ==
  [attrs |-> MethodAttrs(Some("testLogin"), None,
                         Some(<<"P", "A", "S", "S">>), Some(<<"1", "2">>),
                         Some(IsoMethodStart)),
   exception |-> None]

FailingMethod ==
  [attrs |-> MethodAttrs(Some("testLogout"), Some("false"),
                         Some(<<"F", "A", "I", "L">>), Some(<<"7">>),
                         Some(IsoMethodStart)),
   exception |-> Exception(Some(<<"expected true">>), Some(<<"at Foo.bar">>))]

ConfigMethod ==
  [attrs |-> MethodAttrs(Some("beforeSuite"), Some("true"),
                         Some(<<"P", "A", "S", "S">>), Some(<<"3">>),
                         Some(IsoMethodStart)),
   exception |-> None]

\* <test-method/>: no attribute bag.
BareMethod == [attrs |-> None, exception |-> None]

StructMethods == {PassingMethod, FailingMethod, ConfigMethod, BareMethod}

\* One test-method in every combination of the attributes and children the
\* mapper looks at.
DetailMethods ==
  {[attrs |-> MethodAttrs(Some("testDetail"), cfg, st, dur, None),
    exception |-> exc] :
     cfg \in {None, Some("true"), Some("false")},
     st \in {None, Some(<<>>), Some(<<"P", "A", "S", "S">>),
             Some(<<"p", "a", "s", "s">>), Some(<<"F", "a", "i", "l">>),
             Some(<<"S", "K", "I", "P">>),
             Some(<<"B", "L", "O", "C", "K", "E", "D">>)},
     dur \in {None, Some(<<"1", "2">>), Some(<<"-", "5">>),
              Some(<<"a", "b", "c">>)},
     exc \in {None, EmptyException,
              Exception(Some(<<"expected true">>), Some(<<"at Foo.bar">>)),
              Exception(Some(<<"expected true">>), None),
              Exception(None, Some(<<"at Foo.bar">>)),
              Exception(Some(<<"">>), Some(<<"">>))}}

NamedTest == Some([name |-> Some("Regression")])

ClassOf(methods) ==
  Some(<<[attrs |-> Some([name |-> Some("com.example.LoginTest")]),
          test_method |-> methods]>>)

\* The test elements of n nodes: the element and n - 1 test-methods in one
\* class.  Alone, a test is empty (<test/>), or has no class, or has a class
\* without test-method.
TestsOfSize(n) ==
  IF n = 1
  THEN {[attrs |-> None, class |-> None],
        [attrs |-> NamedTest, class |-> None],
        [attrs |-> NamedTest, class |-> ClassOf(None)]}
  ELSE {[attrs |-> a, class |-> ClassOf(Some(ms))] :
          a \in {None, NamedTest}, ms \in [1..(n - 1) -> StructMethods]}

RECURSIVE TestForests(_)
\* The sequences of test elements of n nodes in all.
TestForests(n) ==
  IF n = 0 THEN {<<>>}
  ELSE UNION {{<<t>> \o rest : t \in TestsOfSize(i), rest \in TestForests(n - i)} :
                i \in 1..n}

CountAttrs(total, passed, failed, skipped, ignored) ==
  Some([total |-> total, passed |-> passed, failed |-> failed,
        skipped |-> skipped, ignored |-> ignored])

\* total=5 passed=3 failed=1 skipped=1 ignored=0
ScenarioCounts ==
  CountAttrs(Some(<<"5">>), Some(<<"3">>), Some(<<"1">>), Some(<<"1">>),
             Some(<<"0">>))

\* Counts that are missing, empty, not numeric, or numeric with a tail.
OddCounts ==
  CountAttrs(Some(<<"a", "b", "c">>), None, Some(<<>>), Some(<<"2", "x">>),
             Some(<<"4">>))

RootAttrs == {ScenarioCounts, OddCounts, None}

NamedSuite ==
  Some([name |-> Some("Surefire suite"), started_at |-> Some(IsoStart),
        finished_at |-> Some(IsoStop)])

SuiteAttrs == {NamedSuite, None}

\* A suite whose started-at has a zone name and whose finished-at is no
\* date; a suite with a name and neither attribute.
ZonedSuite ==
  Some([name |-> Some("Surefire suite"), started_at |-> Some(IsoStartZoned),
        finished_at |-> Some(NotADateSpaced)])
UntimedSuite ==
  Some([name |-> Some("Surefire suite"), started_at |-> None,
        finished_at |-> None])

DatedSuites == {NamedSuite, ZonedSuite, UntimedSuite, None}

TestNGTree(rootAttrs, suiteAttrs, tests) ==
  [testng_results |->
     Some([attrs |-> rootAttrs,
           suite |-> Some(<<[attrs |-> suiteAttrs, test |-> tests]>>)])]

\* Three tests of one method each, the second test without attribute bag;
\* and a test of two classes.
IsolationTests ==
  <<[attrs |-> NamedTest, class |-> ClassOf(Some(<<PassingMethod>>))],
    [attrs |-> None, class |-> ClassOf(Some(<<FailingMethod>>))],
    [attrs |-> NamedTest,
     class |-> Some(<<ClassOf(Some(<<ConfigMethod, FailingMethod>>))[1][1],
                      ClassOf(Some(<<PassingMethod>>))[1][1]>>)]>>

\* Five well-formed methods, none a configuration method.
ScenarioTests ==
  <<[attrs |-> NamedTest,
     class |-> ClassOf(Some(<<PassingMethod, PassingMethod, PassingMethod,
                              FailingMethod,
                              [attrs |-> MethodAttrs(Some("testSkipped"), None,
                                                     Some(<<"S", "K", "I", "P">>),
                                                     Some(<<"0">>), None),
                               exception |-> None]>>))]>>

\* A method named "beforeSuite" started at startedAt.
BeforeSuiteAt(isConfig, startedAt) ==
  [attrs |-> MethodAttrs(Some("beforeSuite"), isConfig,
                         Some(<<"P", "A", "S", "S">>), Some(<<"3">>), startedAt),
   exception |-> None]

OneClassTest(methods) == [attrs |-> NamedTest, class |-> ClassOf(Some(methods))]

\* Tests without beforeSuite method; with one after another method; with
\* two in two tests; with one lacking started-at before another; with one
\* after a method without attribute bag; with one whose started-at has a
\* zone name or is no date; with one that is not a configuration method.
BeforeSuiteTests ==
  {<<OneClassTest(<<PassingMethod>>)>>,
   <<OneClassTest(<<PassingMethod, ConfigMethod>>)>>,
   <<OneClassTest(<<ConfigMethod>>),
     OneClassTest(<<BeforeSuiteAt(Some("true"), Some(IsoStop))>>)>>,
   <<OneClassTest(<<BeforeSuiteAt(Some("true"), None), ConfigMethod>>)>>,
   <<OneClassTest(<<BareMethod, ConfigMethod>>)>>,
   <<OneClassTest(<<BeforeSuiteAt(Some("true"), Some(IsoStartZoned))>>)>>,
   <<OneClassTest(<<BeforeSuiteAt(Some("true"), Some(NotADate))>>)>>,
   <<OneClassTest(<<BeforeSuiteAt(None, Some(IsoStop))>>)>>}

\* The trees xml2js can hand to the TestNG extractors.
TestNGTrees ==
  \* no testng-results root; <testng-results/>; a root without suite; an
  \* empty suite array; <suite/>
  {[testng_results |-> None],
   [testng_results |-> Some([attrs |-> None, suite |-> None])],
   [testng_results |-> Some([attrs |-> ScenarioCounts, suite |-> None])],
   [testng_results |-> Some([attrs |-> ScenarioCounts, suite |-> Some(<<>>)])],
   TestNGTree(ScenarioCounts, None, None)}
  \cup {TestNGTree(r, s, t) :
          r \in RootAttrs, s \in SuiteAttrs,
          t \in {None} \cup {Some(f) : f \in UNION {TestForests(n) : n \in 1..MaxNodes}}}
  \cup {TestNGTree(ScenarioCounts, NamedSuite,
                   Some(<<[attrs |-> NamedTest, class |-> ClassOf(Some(<<m>>))]>>)) :
          m \in DetailMethods}
  \cup {TestNGTree(r, NamedSuite, Some(t)) :
          r \in RootAttrs, t \in {IsolationTests, ScenarioTests}}
  \cup {TestNGTree(ScenarioCounts, s, t) :
          s \in DatedSuites, t \in {None} \cup {Some(f) : f \in BeforeSuiteTests}}

Body(hasAttrs, text) == [hasAttrs |-> hasAttrs, text |-> text]

CaseAttrs(name, time) ==
  Some([classname |-> Some("com.example.LoginTest"), name |-> name,
        time |-> time])

PassingCase ==
  [attrs |-> CaseAttrs(Some("testLogin"), Some(<<"1", ".", "2", "3", "4">>)),
   failure |-> None, error |-> None, skipped |-> None]

\* <failure message="..." type="...">text</failure>
FailingCase ==
  [attrs |-> CaseAttrs(Some("testLogout"), Some(<<"0", ".", "5">>)),
   failure |-> Some(<<Body(TRUE, "expected true")>>),
   error |-> None, skipped |-> None]

\* <testcase/>: no attribute bag.
BareCase == [attrs |-> None, failure |-> None, error |-> None, skipped |-> None]

StructCases == {PassingCase, FailingCase, BareCase}

\* One testcase in every combination of the children and the time the
\* mapper looks at: each child absent, empty, text only, attributes only,
\* attributes and text.
DetailCases ==
  {[attrs |-> CaseAttrs(Some("testDetail"), time),
    failure |-> failure, error |-> error, skipped |-> skipped] :
     failure \in {None, Some(<<Body(FALSE, "")>>), Some(<<Body(FALSE, "boom")>>),
                  Some(<<Body(TRUE, "")>>), Some(<<Body(TRUE, "boom")>>)},
     error \in {None, Some(<<Body(FALSE, "")>>), Some(<<Body(TRUE, "crash")>>)},
     skipped \in {None, Some(<<Body(FALSE, "")>>), Some(<<Body(TRUE, "")>>)},
     time \in {None, Some(<<"1", ".", "2", "3", "4">>), Some(<<"0">>),
               Some(<<"a", "b", "c">>), Some(<<"-", "1">>),
               Some(<<"0", ".", "0", "0", "0", "5">>)}}

InnerSuite == Some([name |-> Some("Inner suite")])

RECURSIVE SuitesOfSize(_)
RECURSIVE SuiteForests(_)
\* The testsuite elements of n nodes: the element, k testcases, and nested
\* testsuites of n - 1 - k nodes in all.
SuitesOfSize(n) ==
  UNION {{[attrs |-> a,
           testcase |-> IF k = 0 THEN None ELSE Some(cs),
           testsuite |-> IF f = <<>> THEN None ELSE Some(f)] :
            a \in {InnerSuite, None},
            cs \in [1..k -> StructCases],
            f \in SuiteForests(n - 1 - k)} :
           k \in 0..(n - 1)}

\* The sequences of testsuite elements of n nodes in all.
SuiteForests(n) ==
  IF n = 0 THEN {<<>>}
  ELSE UNION {{<<t>> \o rest : t \in SuitesOfSize(i), rest \in SuiteForests(n - i)} :
                i \in 1..n}

\* The top-level suites are named "Suite A", "Suite B", ... in their order.
TopLevel(forest) ==
  [i \in 1..Len(forest) |->
     [forest[i] EXCEPT !.attrs = IF @ = None THEN None
                                 ELSE Some([name |-> Some("Suite " \o Uppers[i])])]]

JUnitTree(suites) ==
  [testsuites |-> Some([attrs |-> None, testsuite |-> Some(suites)])]

\* The trees xml2js can hand to the JUnit extractor.
JUnitTrees ==
  \* another root element than testsuites; <testsuites/>
  {[testsuites |-> None],
   [testsuites |-> Some([attrs |-> None, testsuite |-> None])]}
  \cup {JUnitTree(TopLevel(f)) : f \in UNION {SuiteForests(n) : n \in 1..MaxNodes}}
  \cup {JUnitTree(<<[attrs |-> Some([name |-> Some("Suite A")]),
                     testcase |-> Some(<<c>>), testsuite |-> None]>>) :
          c \in DetailCases}
  \* a top-level suite with attributes but no name
  \cup {JUnitTree(<<[attrs |-> Some([name |-> None]),
                     testcase |-> Some(<<PassingCase>>), testsuite |-> None]>>)}

(***************************************************************************)
(* The conversion: convertTestngToCTRF (both copies) and                   *)
(* convertJUnitToCTRF, stage by stage.                                     *)
(***************************************************************************)
VARIABLES
  pipeline,     \* "testng", "testngLegacy" or "junit": the converter run
  toolName,     \* the optional --tool argument
  envProps,     \* the optional --env arguments, an array of "KEY=value"
  pc,           \* the stage reached
  result,       \* the tree xml2js produced, None before
  extracted,    \* what the extractor resolved with, None before
  report,       \* the CTRF report, None before
  error,        \* the message the promise rejected with, None if it has not
  dirCreated,   \* fs.ensureDir has run
  fileWritten   \* fs.outputJson has written the report

vars == <<pipeline, toolName, envProps, pc, result, extracted, report, error,
          dirCreated, fileWritten>>

Pipelines == {"testng", "testngLegacy", "junit"}

\* "A=1", "B=2", "A=3": a key given twice.
EnvRepeated == <<<<"A", "=", "1">>, <<"B", "=", "2">>, <<"A", "=", "3">>>>
\* "K=a=b", "KEY": a value holding an "=", and a property without "=".
EnvOdd == <<<<"K", "=", "a", "=", "b">>, <<"K", "E", "Y">>>>

\* The tool name and environment properties a conversion is called with.
Arguments ==
  {[toolName |-> None, envProps |-> None],
   [toolName |-> Some("ExampleTool"), envProps |-> Some(<<>>)],
   [toolName |-> Some("ExampleTool"), envProps |-> Some(EnvRepeated)],
   [toolName |-> None, envProps |-> Some(EnvOdd)]}

Init ==
  /\ pipeline \in Pipelines
  /\ \E a \in Arguments : toolName = a.toolName /\ envProps = a.envProps
  /\ pc = "start"
  /\ result = None
  /\ extracted = None
  /\ report = None
  /\ error = None
  /\ dirCreated = FALSE
  /\ fileWritten = FALSE

Reject(msg) ==
  /\ pc' = "rejected"
  /\ error' = Some(msg)

\* await fs.readFile(filePath, "utf-8")
ReadFile ==
  /\ pc = "start"
  /\ \/ pc' = "read" /\ UNCHANGED error
     \/ Reject("ENOENT: no such file or directory")
  /\ UNCHANGED <<pipeline, toolName, envProps, result, extracted, report, dirCreated,
                 fileWritten>>

Trees == IF pipeline = "junit" THEN JUnitTrees ELSE TestNGTrees

\* parseString / parseStringPromise: a tree, or the parser's error.
ParseXml ==
  /\ pc = "read"
  /\ \/ /\ \E t \in Trees : result' = Some(t)
        /\ pc' = "parsed"
        /\ UNCHANGED error
     \/ /\ Reject(IF pipeline = "testng"
                  THEN "Failed to parse TestNG XML: Unclosed root tag"
                  ELSE "Unclosed root tag")
        /\ UNCHANGED result
  /\ UNCHANGED <<pipeline, toolName, envProps, extracted, report, dirCreated, fileWritten>>

Extractor(tree) ==
  CASE pipeline = "testng" -> parseTestNGReport(tree)
    [] pipeline = "testngLegacy" -> parseTestNGReportLegacy(tree)
    [] pipeline = "junit" -> parseJUnitReport(tree)

\* The rest of parseTestNGReport / parseJUnitReport: the walk of the tree.
Extract ==
  /\ pc = "parsed"
  /\ LET out == Extractor(result[1]) IN
       IF out.state = "resolved"
       THEN /\ extracted' = Some(out)
            /\ pc' = "extracted"
            /\ UNCHANGED error
       ELSE /\ Reject(out.message)
            /\ UNCHANGED extracted
  /\ UNCHANGED <<pipeline, toolName, envProps, result, report, dirCreated, fileWritten>>

\* envProps ? Object.fromEntries(envProps.map(prop => prop.split("="))) : {}
EnvPropsObj(props) ==
  IF props = None THEN EmptyObject
  ELSE fromEntries([i \in 1..Len(props[1]) |-> split(props[1][i], "=")])

\* envPropsObj, then createCTRFReport(testCases, results, toolName, envPropsObj)
CreateReport ==
  /\ pc = "extracted"
  /\ report' = Some(IF pipeline = "junit"
                    THEN createCTRFReportJUnit(extracted[1].testCases, toolName,
                                               EnvPropsObj(envProps))
                    ELSE createCTRFReport(extracted[1].testCases,
                                          extracted[1].results[1], toolName,
                                          EnvPropsObj(envProps)))
  /\ pc' = "mapped"
  /\ UNCHANGED <<pipeline, toolName, envProps, result, extracted, error, dirCreated,
                 fileWritten>>

\* fs.ensureDir moved ahead of the parse: the directory made as soon as the
\* file is read.
EnsureDirBeforeParse ==
  /\ pc \in {"read", "mapped"}
  /\ ~dirCreated
  /\ dirCreated' = TRUE
  /\ pc' = IF pc = "mapped" THEN "dirReady" ELSE pc
  /\ UNCHANGED <<pipeline, toolName, envProps, result, extracted, report, error, fileWritten>>

\* await fs.ensureDir(outputDir)
EnsureDir ==
  /\ pc = "mapped"
  /\ \/ pc' = "dirReady" /\ dirCreated' = TRUE /\ UNCHANGED error
     \/ Reject("EACCES: permission denied, mkdir") /\ UNCHANGED dirCreated
  /\ UNCHANGED <<pipeline, toolName, envProps, result, extracted, report, fileWritten>>

\* await fs.outputJson(finalOutputPath, ctrfReport, { spaces: 2 })
OutputJson ==
  /\ pc = "dirReady"
  /\ \/ pc' = "written" /\ fileWritten' = TRUE /\ UNCHANGED error
     \/ Reject("EACCES: permission denied, open") /\ UNCHANGED fileWritten
  /\ UNCHANGED <<pipeline, toolName, envProps, result, extracted, report, dirCreated>>

Next ==
  \/ ReadFile
  \/ ParseXml
  \/ Extract
  \/ CreateReport
  \/ EnsureDir
  \/ OutputJson

Spec == Init /\ [][Next]_vars

(***************************************************************************)
(* What the claims speak of.                                               *)
(***************************************************************************)
TestNGRun == pipeline \in {"testng", "testngLegacy"}

\* The suite element of a TestNG tree that has one.
SuiteOf(tree) == First(tree.testng_results[1].suite)[1]

IsConfig(method) ==
  method.attrs # None /\ method.attrs[1].is_config = Some("true")

\* The positions of the test-methods under suite -> test -> class that are
\* not configuration methods, in document order.
NonConfigPositions(suite) ==
  SelectSeq(WalkOrder(suite), LAMBDA pos : ~IsConfig(MethodAt(suite, pos)))

\* Those of them that carry an attribute bag, in a test that carries one.
EligiblePositions(suite) ==
  SelectSeq(NonConfigPositions(suite),
            LAMBDA pos : /\ MethodAt(suite, pos).attrs # None
                         /\ TestAt(suite, pos).attrs # None)

\* "<test name>: <method name>" of a position whose names are given.
NameAt(suite, pos) ==
  TestAt(suite, pos).attrs[1].name[1] \o ": "
    \o MethodAt(suite, pos).attrs[1].name[1]

\* The output list is, entry by entry, the methods at positions ps.
TestsAre(suite, ps) ==
  /\ Len(report[1].tests) = Len(ps)
  /\ \A i \in 1..Len(ps) :
       /\ MethodAt(suite, ps[i]).attrs # None
       /\ TestAt(suite, ps[i]).attrs # None
       /\ report[1].tests[i].name = NameAt(suite, ps[i])

\* C1 as stated: in the TestNG pipeline every test-method that is not a
\* configuration method is in the output list exactly once, and no
\* configuration method is.
C1_AsStated ==
  (TestNGRun /\ report # None) =>
    TestsAre(SuiteOf(result[1]), NonConfigPositions(SuiteOf(result[1])))

\* C1: whenever the TestNG conversion produces a report, its test list is,
\* in document order and once each, the test-methods that are not
\* configuration methods, carry an attribute bag and sit in a test element
\* that carries one; configuration methods, methods without attribute bag
\* and methods of a test without attribute bag are absent.
C1_OutputIsEligibleMethods ==
  (TestNGRun /\ report # None) =>
    TestsAre(SuiteOf(result[1]), EligiblePositions(SuiteOf(result[1])))

\* A report of the current extractor from a tree holding a configuration
\* method, a method without attribute bag and an emitted method.
C1_Witness ==
  /\ pipeline = "testng"
  /\ report # None
  /\ Len(report[1].tests) >= 1
  /\ LET suite == SuiteOf(result[1]) IN
       /\ \E i \in 1..Len(WalkOrder(suite)) :
            IsConfig(MethodAt(suite, WalkOrder(suite)[i]))
       /\ \E i \in 1..Len(WalkOrder(suite)) :
            MethodAt(suite, WalkOrder(suite)[i]).attrs = None

RECURSIVE LeavesOf(_)
\* The testcase elements of a testsuite at every nesting level, its own
\* first, then those of its nested suites.
LeavesOf(suite) ==
  (IF suite.testcase = None THEN <<>> ELSE suite.testcase[1])
  \o (IF suite.testsuite = None THEN <<>>
      ELSE ConcatAll([i \in 1..Len(suite.testsuite[1]) |->
                        LeavesOf(suite.testsuite[1][i])]))

\* The testcase leaves of all the top-level suites of a JUnit tree.
Leaves(tree) ==
  LET suites == tree.testsuites[1].testsuite[1] IN
  ConcatAll([i \in 1..Len(suites) |-> LeavesOf(suites[i])])

JUnitReported == pipeline = "junit" /\ report # None

\* C2: in the JUnit pipeline the output list has as many tests as there are
\* testcase leaves at all nesting levels of all top-level suites.
C2_CountEqualsLeaves ==
  JUnitReported => Len(report[1].tests) = Len(Leaves(result[1]))

\* A report from a top-level suite that has a testcase of its own and a
\* nested suite with a testcase.
C2_Witness ==
  /\ JUnitReported
  /\ \E i \in 1..Len(result[1].testsuites[1].testsuite[1]) :
       LET top == result[1].testsuites[1].testsuite[1][i] IN
       /\ top.testcase # None
       /\ top.testsuite # None
       /\ \E j \in 1..Len(top.testsuite[1]) : top.testsuite[1][j].testcase # None

\* The status the presence of the child elements calls for.
StructuralStatus(testCase) ==
  IF testCase.failure # None \/ testCase.error # None THEN "failed"
  ELSE IF testCase.skipped # None THEN "skipped"
  ELSE "passed"

\* C3 as stated: the status of every JUnit output test is "failed" when its
\* testcase has a failure or error child, else "skipped" when it has a
\* skipped child, else "passed"; never "pending" or "other".
C3_AsStated ==
  JUnitReported =>
    \A i \in 1..Len(report[1].tests) :
      /\ i <= Len(Leaves(result[1]))
      /\ report[1].tests[i].status = StructuralStatus(Leaves(result[1])[i])

\* The status the TestNG mapping gives a lower-cased raw status.
MappedStatus(raw) ==
  IF raw = <<"p", "a", "s", "s">> THEN "passed"
  ELSE IF raw = <<"f", "a", "i", "l">> THEN "failed"
  ELSE IF raw = <<"s", "k", "i", "p">> THEN "skipped"
  ELSE "other"

\* C4: in the TestNG pipeline the raw statuses "pass", "fail" and "skip"
\* give "passed", "failed" and "skipped", every other raw status gives
\* "other", and no output test is "pending".
C4_StatusMapping ==
  (pipeline = "testng" /\ report # None) =>
    /\ Len(report[1].tests) = Len(extracted[1].testCases)
    /\ \A i \in 1..Len(report[1].tests) :
         /\ report[1].tests[i].status = MappedStatus(extracted[1].testCases[i].status)
         /\ report[1].tests[i].status # "pending"
    /\ LET suite == SuiteOf(result[1])
           ps == EligiblePositions(suite)
       IN \A i \in 1..Len(ps) :
            LET st == MethodAt(suite, ps[i]).attrs[1].status
                out == report[1].tests[i].status
            IN /\ st \in {Some(<<"P", "A", "S", "S">>), Some(<<"p", "a", "s", "s">>)}
                    => out = "passed"
               /\ st = Some(<<"F", "a", "i", "l">>) => out = "failed"
               /\ st = Some(<<"S", "K", "I", "P">>) => out = "skipped"
               /\ st \in {None, Some(<<>>), Some(<<"B", "L", "O", "C", "K", "E", "D">>)}
                    => out = "other"

\* A report with a test mapped to "other" from a raw status that is not the
\* default, from a status attribute written in upper case.
C4_Witness ==
  /\ pipeline = "testng"
  /\ report # None
  /\ \E i \in 1..Len(report[1].tests) :
       /\ report[1].tests[i].status = "other"
       /\ extracted[1].testCases[i].status = <<"b", "l", "o", "c", "k", "e", "d">>

\* The text the mapper may attach to output test i: the extracted message
\* and trace (TestNG), or the failure text, else the error text (JUnit).
SourceMessage(i) ==
  IF pipeline = "junit"
  THEN OrElse(extracted[1].testCases[i].failure, extracted[1].testCases[i].error)
  ELSE extracted[1].testCases[i].message

SourceTrace(i) ==
  IF pipeline = "junit"
  THEN OrElse(extracted[1].testCases[i].failure, extracted[1].testCases[i].error)
  ELSE extracted[1].testCases[i].trace

\* C5: in both pipelines an output test carries a message (a trace) only
\* when its status is "failed" and the source field is non-empty, and then
\* it is that field; a passed, skipped or other test carries neither.
C5_MessageOnlyWhenFailed ==
  (pipeline \in {"testng", "junit"} /\ report # None) =>
    \A i \in 1..Len(report[1].tests) :
      LET t == report[1].tests[i] IN
      /\ t.message # None =>
           t.status = "failed" /\ TruthyStr(SourceMessage(i)) /\ t.message = SourceMessage(i)
      /\ t.trace # None =>
           t.status = "failed" /\ TruthyStr(SourceTrace(i)) /\ t.trace = SourceTrace(i)
      /\ t.status # "failed" => t.message = None /\ t.trace = None

\* A TestNG report with a test that is not failed although its method had
\* an exception with a message and a stack trace.
C5_Witness ==
  /\ pipeline = "testng"
  /\ report # None
  /\ \E i \in 1..Len(report[1].tests) :
       /\ report[1].tests[i].status \in {"passed", "skipped", "other"}
       /\ TruthyStr(extracted[1].testCases[i].message)
       /\ TruthyStr(extracted[1].testCases[i].trace)

\* The root attribute bag of a TestNG tree.
RootCounts(tree) == tree.testng_results[1].attrs

\* C6: the TestNG summary repeats the counts read from the root attributes
\* (other is the ignored count), whatever the methods extracted, and pending
\* is 0; total=5 passed=3 failed=1 skipped=1 ignored=0 gives 5, 3, 1, 1, 0.
C6_SummaryFromRoot ==
  (pipeline = "testng" /\ report # None) =>
    LET sum == report[1].summary
        res == extracted[1].results[1]
    IN /\ sum.tests = res.total
       /\ sum.passed = res.passed
       /\ sum.failed = res.failed
       /\ sum.skipped = res.skipped
       /\ sum.other = res.ignored
       /\ sum.pending = Num(0)
       /\ RootCounts(result[1]) = ScenarioCounts =>
            /\ sum.tests = Num(5)
            /\ sum.passed = Num(3)
            /\ sum.failed = Num(1)
            /\ sum.skipped = Num(1)
            /\ sum.other = Num(0)
       /\ (RootCounts(result[1]) = ScenarioCounts
             /\ SuiteOf(result[1]).test = Some(ScenarioTests)) =>
            Len(report[1].tests) = 5

\* A summary of 5 tests over an output list of another length.
C6_Witness ==
  /\ pipeline = "testng"
  /\ report # None
  /\ report[1].summary.tests = Num(5)
  /\ report[1].summary.passed = Num(3)
  /\ Len(report[1].tests) # 5

\* The number of output tests with status st.
Tally(st) ==
  Cardinality({i \in 1..Len(report[1].tests) : report[1].tests[i].status = st})

\* C7: the JUnit summary counts are the tallies of the output list by
\* status, tests is its length and the sum of the five counts, and start
\* and stop are 0.
C7_SummaryTallied ==
  JUnitReported =>
    LET sum == report[1].summary IN
    /\ sum.passed = Num(Tally("passed"))
    /\ sum.failed = Num(Tally("failed"))
    /\ sum.skipped = Num(Tally("skipped"))
    /\ sum.pending = Num(Tally("pending"))
    /\ sum.other = Num(Tally("other"))
    /\ sum.tests = Num(Len(report[1].tests))
    /\ sum.tests = Num(sum.passed[1] + sum.failed[1] + sum.skipped[1]
                         + sum.pending[1] + sum.other[1])
    /\ sum.start = Num(0)
    /\ sum.stop = Num(0)

\* The scenario: "Suite A" with a nested suite of two testcases, one
\* passing and one with a failure child, gives two tests named "Suite A: ..."
\* and a summary of tests 2, passed 1, failed 1.
C7_Witness ==
  /\ JUnitReported
  /\ LET top == result[1].testsuites[1].testsuite[1] IN
       /\ Len(top) = 1
       /\ top[1].testcase = None
       /\ top[1].testsuite # None
       /\ Len(top[1].testsuite[1]) = 1
       /\ top[1].testsuite[1][1].testcase = Some(<<PassingCase, FailingCase>>)
  /\ report[1].summary.tests = Num(2)
  /\ report[1].summary.passed = Num(1)
  /\ report[1].summary.failed = Num(1)
  /\ report[1].tests[1].name = "Suite A: testLogin"
  /\ report[1].tests[2].name = "Suite A: testLogout"

\* The extractor has run on the tree.
Extracted == result # None /\ pc # "parsed"

\* C8 as stated: the TestNG extractor rejects a tree without testng-results
\* root with the message "... missing testng-results", and a tree with the
\* root but without suite (or with an empty suite array) with the message
\* "... missing suite"; in both cases it produces no test case and no summary.
C8_AsStated ==
  (TestNGRun /\ Extracted) =>
    LET root == result[1].testng_results IN
    /\ root = None =>
         /\ pc = "rejected"
         /\ error = Some(MissingRootMessage)
         /\ extracted = None
    /\ (root # None /\ First(root[1].suite) = None) =>
         /\ pc = "rejected"
         /\ error = Some(MissingSuiteMessage)
         /\ extracted = None

\* The steps from one stage to the next, and the stages that can reject.
StageSteps ==
  {<<"start", "read">>, <<"read", "parsed">>, <<"parsed", "extracted">>,
   <<"extracted", "mapped">>, <<"mapped", "dirReady">>, <<"dirReady", "written">>}
  \cup {<<st, "rejected">> : st \in {"start", "read", "parsed", "mapped", "dirReady"}}

\* C9: the stages run in the order read, parse, extract, map, create the
\* directory, write; the directory is created only once the report is
\* mapped and the file written only after every earlier stage succeeded;
\* and a conversion that rejects while parsing or extracting has created no
\* directory and written no file.
C9_StageOrder ==
  [][/\ pc' # pc => <<pc, pc'>> \in StageSteps
     /\ (dirCreated' /\ ~dirCreated) => (pc = "mapped" /\ report # None)
     /\ (fileWritten' /\ ~fileWritten) =>
          /\ pc = "dirReady"
          /\ dirCreated
          /\ report # None /\ extracted # None /\ result # None
     /\ (pc' = "rejected" /\ pc \in {"read", "parsed"}) =>
          (~dirCreated' /\ ~fileWritten')]_vars

\* A conversion rejected for a missing testng-results root; one rejected by
\* the XML parser is the same with error the parser's.
C9_Witness ==
  /\ pc = "rejected"
  /\ error = Some(MissingRootMessage)
  /\ ~dirCreated
  /\ ~fileWritten

\* The positions whose processing raises: a method with an attribute bag,
\* not a configuration method, in a test element without attribute bag.
RaisingPositions(suite) ==
  SelectSeq(NonConfigPositions(suite),
            LAMBDA pos : /\ MethodAt(suite, pos).attrs # None
                         /\ TestAt(suite, pos).attrs = None)

\* The tree passes the validation and the summary is read: the walk runs.
WalkRuns(tree) ==
  /\ tree.testng_results # None
  /\ tree.testng_results[1].attrs # None
  /\ First(tree.testng_results[1].suite) # None
  /\ ~IsEmptySuite(SuiteOf(tree))

\* C10: when processing a test-method raises during the walk of the current
\* TestNG extractor, that method alone is dropped and logged: the extractor
\* still resolves, with every other eligible method, before and after it,
\* in document order.
C10_FailureIsolated ==
  (pipeline = "testng" /\ Extracted /\ WalkRuns(result[1])
     /\ RaisingPositions(SuiteOf(result[1])) # <<>>) =>
    LET suite == SuiteOf(result[1])
        ps == EligiblePositions(suite)
    IN /\ extracted # None
       /\ pc = "rejected" => report # None
       /\ extracted[1].caught = RaisingPositions(suite)
       /\ Len(extracted[1].testCases) = Len(ps)
       /\ \A i \in 1..Len(ps) :
            extracted[1].testCases[i].name = NameAt(suite, ps[i])

\* A written report from a walk in which a raising method stands between
\* two emitted ones.
C10_Witness ==
  /\ pipeline = "testng"
  /\ pc = "written"
  /\ LET suite == SuiteOf(result[1])
         order == WalkOrder(suite)
         InSeq(x, sq) == \E n \in 1..Len(sq) : sq[n] = x
     IN \E i, j, k \in 1..Len(order) :
          /\ i < j /\ j < k
          /\ InSeq(order[i], EligiblePositions(suite))
          /\ InSeq(order[j], extracted[1].caught)
          /\ InSeq(order[k], EligiblePositions(suite))

\* The tree has a testng-results root and a suite that is not empty.
HasRootAndSuite(tree) ==
  /\ tree.testng_results # None
  /\ First(tree.testng_results[1].suite) # None
  /\ ~IsEmptySuite(SuiteOf(tree))

\* C11 as stated: for every tree with a testng-results root and a suite the
\* current TestNG extractor resolves, and each of total, passed, failed,
\* skipped and ignored is the integer read from the root attribute, or 0
\* when the attribute is missing or not an integer, the root carrying no
\* attribute at all included.
C11_AsStated ==
  (pipeline = "testng" /\ Extracted /\ HasRootAndSuite(result[1])) =>
    /\ extracted # None
    /\ LET res == extracted[1].results[1]
           counts == <<res.total, res.passed, res.failed, res.skipped, res.ignored>>
       IN /\ RootCounts(result[1]) = None =>
               counts = <<Num(0), Num(0), Num(0), Num(0), Num(0)>>
          /\ RootCounts(result[1]) = OddCounts =>
               counts = <<Num(0), Num(0), Num(0), Num(2), Num(4)>>
          /\ RootCounts(result[1]) = ScenarioCounts =>
               counts = <<Num(5), Num(3), Num(1), Num(1), Num(0)>>

\* The name attribute of the top-level suite each testcase leaf is found
\* under, leaf by leaf in the order of Leaves.
LeafTags(tree) ==
  LET suites == tree.testsuites[1].testsuite[1] IN
  ConcatAll([i \in 1..Len(suites) |->
               [j \in 1..Len(LeavesOf(suites[i])) |-> suites[i].attrs[1].name]])

\* C12: in the JUnit pipeline the name of every output test is
\* "<S>: <testcase name>", S being the name of the top-level testsuite the
\* testcase is found under at whatever depth; the name of a nested
\* testsuite is never the prefix.
C12_PrefixIsTopLevelName ==
  JUnitReported =>
    LET leaves == Leaves(result[1])
        tags == LeafTags(result[1])
    IN /\ Len(report[1].tests) = Len(leaves)
       /\ \A i \in 1..Len(leaves) :
            LET n == leaves[i].attrs[1].name IN
            /\ (tags[i] # None /\ n # None) =>
                 report[1].tests[i].name = tags[i][1] \o ": " \o n[1]
            /\ n # None =>
                 report[1].tests[i].name # InnerSuite[1].name[1] \o ": " \o n[1]

\* A report with a test named after "Suite A" whose testcase sits in a
\* suite named "Inner suite", two levels below the top-level suite.
C12_Witness ==
  /\ JUnitReported
  /\ LET top == result[1].testsuites[1].testsuite[1] IN
       /\ top[1].testsuite # None
       /\ top[1].testsuite[1][1].attrs = InnerSuite
       /\ top[1].testsuite[1][1].testsuite # None
       /\ top[1].testsuite[1][1].testsuite[1][1].attrs = InnerSuite
       /\ top[1].testsuite[1][1].testsuite[1][1].testcase = Some(<<PassingCase>>)
  /\ report[1].tests[1].name = "Suite A: testLogin"

\* The text of an environment property before its first "=", and after it.
KeyOf(prop) == SubSeq(prop, 1, IndexOf(prop, "=", 1) - 1)
RemainderOf(prop) == SubSeq(prop, IndexOf(prop, "=", 1) + 1, Len(prop))

\* C13 as stated: the environment of the report maps the text before the
\* first "=" of each KEY=value property to the whole of the text after it,
\* further "=" characters included, the last property of a key winning.
C13_AsStated ==
  (report # None /\ envProps # None) =>
    \A i \in 1..Len(envProps[1]) :
      LET prop == envProps[1][i]
          isLast == \A j \in (i + 1)..Len(envProps[1]) :
                      KeyOf(envProps[1][j]) # KeyOf(prop)
      IN (IndexOf(prop, "=", 1) <= Len(prop) /\ isLast) =>
           /\ report[1].environment # None
           /\ KeyOf(prop) \in DOMAIN report[1].environment[1]
           /\ report[1].environment[1][KeyOf(prop)] = Some(RemainderOf(prop))

\* C14 as stated: for a tree without testsuites root the JUnit conversion
\* rejects with a message of its own that names the missing structure, not
\* with a TypeError of the engine.
C14_AsStated ==
  (pipeline = "junit" /\ Extracted /\ result[1].testsuites = None) =>
    /\ pc = "rejected"
    /\ error # None
    /\ error[1] # TypeErrorMessage

\* C15 as stated: in both pipelines the duration of every output test is a
\* non-negative integer, whatever the duration-ms or time attribute.
C15_AsStated ==
  (pipeline \in {"testng", "junit"} /\ report # None) =>
    \A i \in 1..Len(report[1].tests) :
      /\ report[1].tests[i].duration # NaN
      /\ report[1].tests[i].duration[1] >= 0

\* The test-methods named "beforeSuite" under suite -> test -> class, in
\* document order.
NamedBeforeSuite(suite) ==
  SelectSeq(AllMethods(suite),
            LAMBDA m : m.attrs # None /\ m.attrs[1].name = Some("beforeSuite"))

\* The started-at and finished-at attributes of a suite element.
SuiteStartedAt(suite) ==
  IF suite.attrs = None THEN None ELSE suite.attrs[1].started_at
SuiteFinishedAt(suite) ==
  IF suite.attrs = None THEN None ELSE suite.attrs[1].finished_at

\* The timestamp a date attribute stands for: that of the whole text, else
\* that of the text before its first space, else 0; 0 when it is absent.
ExpectedTime(o) ==
  CASE o = None -> Num(0)
    [] o = Some(IsoStart) -> Num(36000)
    [] o = Some(IsoMethodStart) -> Num(36005)
    [] o = Some(IsoStop) -> Num(36300)
    [] o = Some(IsoStartZoned) -> Num(36000)
    [] o = Some(NotADate) -> Num(0)
    [] o = Some(NotADateSpaced) -> Num(0)

\* C16: whenever a TestNG conversion produces a report, summary.start is
\* the parsed started-at of the first test-method named "beforeSuite" under
\* suite -> test -> class if there is one, and the parsed started-at of the
\* suite if there is none; summary.stop is the parsed finished-at of the
\* suite whether or not there is a beforeSuite method.
C16_StartFromBeforeSuite ==
  (TestNGRun /\ report # None) =>
    LET suite == SuiteOf(result[1])
        named == NamedBeforeSuite(suite)
    IN /\ named # <<>> =>
            report[1].summary.start = ExpectedTime(named[1].attrs[1].started_at)
       /\ named = <<>> =>
            report[1].summary.start = ExpectedTime(SuiteStartedAt(suite))
       /\ report[1].summary.stop = ExpectedTime(SuiteFinishedAt(suite))

\* A report of a suite with two beforeSuite methods started at different
\* times, both other than the suite's: start is the first one's.
C16_Witness ==
  /\ pipeline = "testng"
  /\ report # None
  /\ LET suite == SuiteOf(result[1])
         named == NamedBeforeSuite(suite)
     IN /\ Len(named) = 2
        /\ named[1].attrs[1].started_at = Some(IsoMethodStart)
        /\ named[2].attrs[1].started_at = Some(IsoStop)
        /\ SuiteStartedAt(suite) = Some(IsoStart)
  /\ report[1].summary.start = Num(36005)
  /\ report[1].summary.stop = Num(36300)

\* C17 as stated, on the trees whose root carries its attributes: a suite
\* lacking started-at (finished-at) still converts, and summary.start
\* (summary.stop) is then 0.
C17_AsStated ==
  (pipeline = "testng" /\ Extracted /\ HasRootAndSuite(result[1])
     /\ RootCounts(result[1]) # None) =>
    LET suite == SuiteOf(result[1]) IN
    /\ extracted # None
    /\ SuiteStartedAt(suite) = None => extracted[1].results[1].startTime = Num(0)
    /\ SuiteFinishedAt(suite) = None => extracted[1].results[1].endTime = Num(0)

\* C17: parseDate gives every date attribute a number: the timestamp of the
\* whole text, else that of the text before its first space, else 0, and 0
\* for an absent attribute.  A suite lacking started-at or finished-at is
\* never what makes the current TestNG extractor reject: summary.stop is 0
\* when finished-at is missing, and summary.start is 0 when started-at is
\* missing and no beforeSuite method supplies the start.
C17_DatesDegradeToZero ==
  (pipeline = "testng" /\ Extracted /\ HasRootAndSuite(result[1])) =>
    LET suite == SuiteOf(result[1]) IN
    /\ extracted = None <=> RootCounts(result[1]) = None
    /\ extracted # None =>
         LET res == extracted[1].results[1]
             ps == EligiblePositions(suite)
         IN /\ res.endTime = ExpectedTime(SuiteFinishedAt(suite))
            /\ SuiteFinishedAt(suite) = None => res.endTime = Num(0)
            /\ NamedBeforeSuite(suite) = <<>> =>
                 /\ res.startTime = ExpectedTime(SuiteStartedAt(suite))
                 /\ SuiteStartedAt(suite) = None => res.startTime = Num(0)
            /\ Len(extracted[1].testCases) = Len(ps)
            /\ \A i \in 1..Len(ps) :
                 LET a == MethodAt(suite, ps[i]).attrs[1] IN
                 /\ extracted[1].testCases[i].startTime = ExpectedTime(a.started_at)
                 /\ extracted[1].testCases[i].endTime = ExpectedTime(a.finished_at)

\* A written report of a suite that has a name and neither started-at nor
\* finished-at, and no beforeSuite method: start and stop are 0.
C17_Witness ==
  /\ pipeline = "testng"
  /\ pc = "written"
  /\ LET suite == SuiteOf(result[1]) IN
       /\ suite.attrs = UntimedSuite
       /\ suite.test # None
       /\ NamedBeforeSuite(suite) = <<>>
  /\ report[1].summary.start = Num(0)
  /\ report[1].summary.stop = Num(0)

=============================================================================
